---- MODULE Spec2Model ----
(***************************************************************************)
(* A model of stuck (src/src/main.rs): the line parser of the consumer    *)
(* loop in main, the per-thread windows, and draw (eviction, per-thread   *)
(* suffix counting, cross-thread grouping, ranking and filtering).        *)
(*                                                                         *)
(* Strings are sequences of one-character strings, so that starts_with,   *)
(* trim, split_whitespace, parse, push, truncate, rfind and the slicing   *)
(* of draw are computed character by character.                            *)
(*                                                                         *)
(* Time: the source counts nanoseconds in a usize.  TLC's integers are    *)
(* 32 bits wide and WINDOW is 10^10 ns, so the model counts time in        *)
(* milliseconds: a header's timestamp field t stands for t * 10^6 ns, and *)
(* DRAW_EVERY, WINDOW and PACE_MIN are the source's durations in ms.      *)
(* A difference of two usize values is kept as the mathematical           *)
(* difference; a negative one is the underflow case, which panics in a    *)
(* build with overflow checks and wraps to 2^64 + d in one without.       *)
(*                                                                         *)
(* Failures of the terminal backend (the ? on clear and draw) are not     *)
(* modelled.                                                               *)
(***************************************************************************)
EXTENDS Integers, Sequences, FiniteSets, TLC

\* ------------------------------------------------------------ constants
DRAW_EVERY == 200
WINDOW == 10000
PACE_MIN == 1

\* ------------------------------------------------------------ bounds
\* frames held at a time, in the chain buffer and the windows together
MaxFrames == 4
\* samples inserted by the consumer loop of Spec
MaxInserts == 2
\* lines read from the trace source under StoreSpec
MaxLines == 20

None == <<>>
Some(x) == <<x>>

\* ------------------------------------------------------------ strings
SetMax(S) == CHOOSE x \in S : \A y \in S : y <= x
SetMin(S) == CHOOSE x \in S : \A y \in S : x <= y

\* The byte of a character (the model's alphabet only).
Code(c) ==
    CASE c = " " -> 32
      [] c = "+" -> 43
      [] c = "0" -> 48 [] c = "1" -> 49 [] c = "2" -> 50 [] c = "3" -> 51
      [] c = "4" -> 52 [] c = "5" -> 53 [] c = "6" -> 54 [] c = "7" -> 55
      [] c = "8" -> 56 [] c = "9" -> 57
      [] c = ";" -> 59
      [] c = "A" -> 65 [] c = "E" -> 69
      [] c = "a" -> 97 [] c = "b" -> 98 [] c = "c" -> 99
      [] c = "g" -> 103 [] c = "h" -> 104 [] c = "i" -> 105
      [] c = "n" -> 110 [] c = "o" -> 111 [] c = "r" -> 114
      [] c = "t" -> 116
      [] c = "x" -> 120 [] c = "y" -> 121 [] c = "z" -> 122

\* str::cmp: byte-wise lexicographic order, a proper prefix first.
RECURSIVE StrLess(_, _)
StrLess(s, t) ==
    IF t = <<>> THEN FALSE
    ELSE IF s = <<>> THEN TRUE
    ELSE IF Code(Head(s)) # Code(Head(t)) THEN Code(Head(s)) < Code(Head(t))
    ELSE StrLess(Tail(s), Tail(t))

\* str::starts_with
StartsWith(s, p) == Len(s) >= Len(p) /\ SubSeq(s, 1, Len(p)) = p

\* char::is_whitespace
IsWhitespace(c) == c = " "

\* str::trim: both ends stripped of whitespace
Trim(s) ==
    LET keep == {i \in 1..Len(s) : ~IsWhitespace(s[i])}
    IN  IF keep = {} THEN <<>> ELSE SubSeq(s, SetMin(keep), SetMax(keep))

\* str::split_whitespace: the maximal runs of non-whitespace, in order
RECURSIVE SplitWhitespace(_)
SplitWhitespace(s) ==
    LET keep == {i \in 1..Len(s) : ~IsWhitespace(s[i])}
    IN  IF keep = {} THEN <<>>
        ELSE LET b == SetMin(keep)
                 ws == {i \in b..Len(s) : IsWhitespace(s[i])}
                 e == IF ws = {} THEN Len(s) ELSE SetMin(ws) - 1
             IN  <<SubSeq(s, b, e)>> \o SplitWhitespace(SubSeq(s, e + 1, Len(s)))

IsDigit(c) == Code(c) >= 48 /\ Code(c) <= 57

RECURSIVE DigitsValue(_)
DigitsValue(d) ==
    IF d = <<>> THEN 0
    ELSE 10 * DigitsValue(SubSeq(d, 1, Len(d) - 1)) + (Code(d[Len(d)]) - 48)

\* mutant: a field that is no number reads as 0
ParseUsize_Lenient(s) ==
    LET d == IF s # <<>> /\ Head(s) = "+" THEN Tail(s) ELSE s
    IN  IF d # <<>> /\ \A i \in 1..Len(d) : IsDigit(d[i])
        THEN Some(DigitsValue(d))
        ELSE Some(0)

\* str::parse::<usize>: Some(value) for decimal digits with an optional
\* leading "+", None otherwise.
ParseUsize(s) ==
    LET d == IF s # <<>> /\ Head(s) = "+" THEN Tail(s) ELSE s
    IN  IF d # <<>> /\ \A i \in 1..Len(d) : IsDigit(d[i])
        THEN Some(DigitsValue(d))
        ELSE None

\* the parse of a header line: Some(<<time, tid>>), or None where one of
\* the four expect calls panics
ParseHeader(line) ==
    LET fields == SplitWhitespace(line)
    IN  IF Len(fields) < 1 THEN None
        ELSE IF ParseUsize(fields[1]) = None THEN None
        ELSE IF Len(fields) < 2 THEN None
        ELSE IF ParseUsize(fields[2]) = None THEN None
        ELSE Some(<<ParseUsize(fields[1])[1], ParseUsize(fields[2])[1]>>)

\* stack.push_str(line.trim()); stack.push(';')
PushFrame(stack, line) == stack \o Trim(line) \o <<";">>

\* mutant: the trailing separator is not removed
DropTrailing_Keep(stack) == stack

\* stack.truncate(stack.len() - 1)
DropTrailing(stack) == SubSeq(stack, 1, Len(stack) - 1)

\* ------------------------------------------------------------ Frame Store
\* A BTreeMap is a function on its key set; both maps start empty.
EmptyMap == [k \in {} |-> k]

\* tids.entry(tid).or_insert_with(Thread::default).window.insert(time, stack)
InsertSample(threads, tid, time, stack) ==
    LET w == IF tid \in DOMAIN threads THEN threads[tid] ELSE EmptyMap
        w2 == [t \in DOMAIN w \cup {time} |-> IF t = time THEN stack ELSE w[t]]
    IN  [i \in DOMAIN threads \cup {tid} |-> IF i = tid THEN w2 ELSE threads[i]]

\* the first loop of draw: the greatest key of any window, 0 without one
Latest(threads) ==
    LET lasts == {SetMax(DOMAIN threads[i]) : i \in {j \in DOMAIN threads : DOMAIN threads[j] # {}}}
    IN  IF lasts = {} THEN 0 ELSE SetMax(lasts \cup {0})

\* mutant: split_off's result is dropped, the window keeps the older part
SplitOff_KeepLower(window, key) == [t \in {u \in DOMAIN window : u < key} |-> window[t]]

\* BTreeMap::split_off(&key): the entries with a key >= key
SplitOff(window, key) == [t \in {u \in DOMAIN window : u >= key} |-> window[t]]

\* the eviction pass that opens draw
Evict(threads) ==
    LET latest == Latest(threads)
    IN  IF latest > WINDOW
        THEN [i \in DOMAIN threads |-> SplitOff(threads[i], latest - WINDOW)]
        ELSE threads

\* ------------------------------------------------------------ aggregation
\* stack[..at].rfind(';') as a 1-based index, 0 for None
RFind(stack, at) ==
    LET found == {i \in 1..at : stack[i] = ";"}
    IN  IF found = {} THEN 0 ELSE SetMax(found)

\* mutant: the walk ends with the whole chain
RECURSIVE SuffixesFrom_Whole(_, _)
SuffixesFrom_Whole(stack, at) ==
    LET i == RFind(stack, at)
    IN  IF i = 0 THEN <<stack>>
        ELSE <<SubSeq(stack, i + 1, Len(stack))>> \o SuffixesFrom_Whole(stack, i - 1)

\* the suffixes the while-let loop of draw visits, in the order it visits them
RECURSIVE SuffixesFrom(_, _)
SuffixesFrom(stack, at) ==
    LET i == RFind(stack, at)
    IN  IF i = 0 THEN <<>>
        ELSE <<SubSeq(stack, i + 1, Len(stack))>> \o SuffixesFrom(stack, i - 1)

Suffixes(stack) == SuffixesFrom(stack, Len(stack))

\* mutant: only a greater count replaces max
CountSuffix_Strict(acc, suffix) ==
    LET count == IF suffix \in DOMAIN acc.hits THEN acc.hits[suffix] + 1 ELSE 1
        hits2 == [k \in DOMAIN acc.hits \cup {suffix} |->
                     IF k = suffix THEN count ELSE acc.hits[k]]
    IN  [hits |-> hits2,
         max |-> IF acc.max = None THEN Some(<<suffix, count>>)
                 ELSE IF count > acc.max[1][2] THEN Some(<<suffix, count>>)
                 ELSE acc.max]

\* one turn of the while-let loop: count the suffix, then compare with max
CountSuffix(acc, suffix) ==
    LET count == IF suffix \in DOMAIN acc.hits THEN acc.hits[suffix] + 1 ELSE 1
        hits2 == [k \in DOMAIN acc.hits \cup {suffix} |->
                     IF k = suffix THEN count ELSE acc.hits[k]]
    IN  [hits |-> hits2,
         max |-> IF acc.max = None THEN Some(<<suffix, count>>)
                 ELSE IF count >= acc.max[1][2] THEN Some(<<suffix, count>>)
                 ELSE acc.max]

RECURSIVE ScanSuffixes(_, _)
ScanSuffixes(acc, sufs) ==
    IF sufs = <<>> THEN acc
    ELSE ScanSuffixes(CountSuffix(acc, Head(sufs)), Tail(sufs))

\* for (&time, stack) in &thread.window: ascending keys
RECURSIVE ScanWindow(_, _, _)
ScanWindow(acc, window, times) ==
    IF times = {} THEN acc
    ELSE LET t == SetMin(times)
         IN  ScanWindow(ScanSuffixes(acc, Suffixes(window[t])), window, times \ {t})

\* one thread's final max: None, or Some(<<suffix, count>>)
ThreadMax(window) ==
    ScanWindow([hits |-> EmptyMap, max |-> None], window, DOMAIN window).max

\* mutant: e.1 is overwritten with the thread's count
AddMax_Overwrite(maxes, m) ==
    IF m = None THEN maxes
    ELSE LET stack == m[1][1]
             count == m[1][2]
             old == IF stack \in DOMAIN maxes THEN maxes[stack] ELSE <<0, 0>>
         IN  [k \in DOMAIN maxes \cup {stack} |->
                 IF k = stack THEN <<old[1] + 1, count>> ELSE maxes[k]]

\* maxes.entry(stack).or_insert((0, 0)); e.0 += 1; e.1 += count
AddMax(maxes, m) ==
    IF m = None THEN maxes
    ELSE LET stack == m[1][1]
             count == m[1][2]
             old == IF stack \in DOMAIN maxes THEN maxes[stack] ELSE <<0, 0>>
         IN  [k \in DOMAIN maxes \cup {stack} |->
                 IF k = stack THEN <<old[1] + 1, old[2] + count>> ELSE maxes[k]]

\* for (_, thread) in threads: ascending thread ids
RECURSIVE CollectMaxes(_, _, _)
CollectMaxes(maxes, threads, ids) ==
    IF ids = {} THEN maxes
    ELSE LET i == SetMin(ids)
         IN  CollectMaxes(AddMax(maxes, ThreadMax(threads[i])), threads, ids \ {i})

Maxes(threads) == CollectMaxes(EmptyMap, threads, DOMAIN threads)

\* maxes.into_iter().collect(): the entries in ascending key order
RECURSIVE IntoVec(_, _)
IntoVec(maxes, keys) ==
    IF keys = {} THEN <<>>
    ELSE LET k == CHOOSE x \in keys : \A y \in keys \ {x} : StrLess(x, y)
         IN  <<[stack |-> k, nthreads |-> maxes[k][1], count |-> maxes[k][2]]>>
             \o IntoVec(maxes, keys \ {k})

\* one insertion of a stable sort by nthreads: e goes after the entries
\* with a key <= its own
RECURSIVE InsertByKey(_, _)
InsertByKey(sorted, e) ==
    IF sorted = <<>> THEN <<e>>
    ELSE IF sorted[Len(sorted)].nthreads <= e.nthreads THEN Append(sorted, e)
    ELSE Append(InsertByKey(SubSeq(sorted, 1, Len(sorted) - 1), e), sorted[Len(sorted)])

\* mutant: the vector is left in key order
SortByKey_None(v) == v

\* maxes.sort_by_key(|(_, (nthreads, _))| *nthreads): stable, ascending
RECURSIVE SortByKey(_)
SortByKey(v) ==
    IF v = <<>> THEN <<>>
    ELSE InsertByKey(SortByKey(SubSeq(v, 1, Len(v) - 1)), v[Len(v)])

Reverse(v) == [i \in 1..Len(v) |-> v[Len(v) + 1 - i]]

\* mutant: the count == 1 filter is missing
Retained_NoCountFilter(e) == \E i \in 1..Len(e.stack) : e.stack[i] = ";"

\* the two continue statements of the rendering loop
Retained(e) == (\E i \in 1..Len(e.stack) : e.stack[i] = ";") /\ e.count # 1

\* let max = *maxes.values().map(|(_, count)| count).max().unwrap()
MaxCount(maxes) == SetMax({maxes[k][2] : k \in DOMAIN maxes})

\* (128.0 * count as f64 / max) as u8
Red(count, max) == (128 * count) \div max

\* the fan-out points in the order they are rendered
FanOut(maxes) ==
    LET order == Reverse(SortByKey(IntoVec(maxes, DOMAIN maxes)))
        point(e) == [stack |-> e.stack, nthreads |-> e.nthreads, count |-> e.count,
                     red |-> Red(e.count, MaxCount(maxes))]
    IN  SelectSeq([i \in 1..Len(order) |-> point(order[i])], Retained)

\* draw: the windows after eviction, whether terminal.draw was reached
\* (not when maxes is empty), and the points painted
Draw(threads) ==
    LET kept == Evict(threads)
        maxes == Maxes(kept)
    IN  [threads |-> kept,
         painted |-> DOMAIN maxes # {},
         points |-> IF DOMAIN maxes = {} THEN <<>> ELSE FanOut(maxes)]

\* ------------------------------------------------------------ state
VARIABLES
    replay,      \* opt.replay
    checked,     \* the build panics on integer overflow (debug) or wraps
    pc,          \* "loop", "sleep" (suspended at delay_for), "done" (Ok after
                 \* the loop), "panic", "err" (key?)
    cleared,     \* terminal.clear() after the loop has run
    tids,        \* thread id -> window (time -> stack)
    inframe,     \* None or Some(<<time, tid>>)
    stack,       \* the chain buffer
    lastprint,
    lasttime,
    lines_done,  \* the stdin lines stream has ended
    rx_closed,   \* the key channel has ended
    screen,      \* the fan-out points of the last terminal.draw of draw
    drew,        \* the last step called draw
    delay,       \* the delay_for of the last step (0: none; < 0: wrapped)
    ev,          \* the event the last step dispatched
    rec,         \* the body lines pushed onto stack since it was last emptied
    nins,        \* window inserts so far
    lastins      \* the last window insert

vars == <<replay, checked, pc, cleared, tids, inframe, stack, lastprint, lasttime,
          lines_done, rx_closed, screen, drew, delay, ev, rec, nins, lastins>>

Event(kind, arg) == [kind |-> kind, arg |-> arg]

\* lines 35-85.  When stdin is a tty main returns Ok at line 40, before the
\* terminal is set up and without entering the loop: pc = "done" with
\* nothing cleared.
Init ==
    /\ replay \in BOOLEAN
    /\ checked \in BOOLEAN
    /\ pc \in {"loop", "done"}
    /\ cleared = FALSE
    /\ tids = EmptyMap
    /\ inframe = None
    /\ stack = <<>>
    /\ lastprint = 0
    /\ lasttime = 0
    /\ lines_done = FALSE
    /\ rx_closed = FALSE
    /\ screen = <<>>
    /\ drew = FALSE
    /\ delay = 0
    /\ ev = Event("start", <<>>)
    /\ rec = <<>>
    /\ nins = 0
    /\ lastins = None

\* a usize difference d (negative: wrapped to 2^64 + d) against a small bound
UsizeGt(d, bound) == d < 0 \/ d > bound

\* mutant: lastprint is not set when draw has run
FlushRest_NoStamp(time, threads) ==
    LET panic2 == checked /\ time - lastprint < 0
        due == UsizeGt(time - lastprint, DRAW_EVERY)
        d == Draw(threads)
        base == [tids |-> threads, lasttime |-> time, lastprint |-> lastprint,
                 screen |-> screen, drew |-> FALSE, panicked |-> TRUE]
    IN  IF panic2 THEN base
        ELSE IF ~due THEN [base EXCEPT !.panicked = FALSE]
        ELSE [base EXCEPT !.tids = d.threads,
                          !.screen = IF d.painted THEN d.points ELSE screen,
                          !.drew = TRUE, !.panicked = FALSE]

\* lines 114-120: what follows the pacing test, at once or after the wait:
\* lasttime, then the draw that is due.  The values the variables hold when
\* the block ends or panics on the subtraction.
FlushRest(time, threads) ==
    LET panic2 == checked /\ time - lastprint < 0
        due == UsizeGt(time - lastprint, DRAW_EVERY)
        d == Draw(threads)
        base == [tids |-> threads, lasttime |-> time, lastprint |-> lastprint,
                 screen |-> screen, drew |-> FALSE, panicked |-> TRUE]
    IN  IF panic2 THEN base
        ELSE IF ~due THEN [base EXCEPT !.panicked = FALSE]
        ELSE [base EXCEPT !.tids = d.threads, !.lastprint = time,
                          !.screen = IF d.painted THEN d.points ELSE screen,
                          !.drew = TRUE, !.panicked = FALSE]

\* lines 96-120: the buffer becomes a sample of (time, tid), then the pacing
\* test.  The values the variables hold where the task stops: at the panic
\* of a subtraction, suspended at delay_for(..).await (line 112) with the
\* sample inserted and lasttime, lastprint not yet set, or at the end of
\* the block when there is no wait.
FlushRecord(time, tid, buf) ==
    LET chain == DropTrailing(buf)
        ins == InsertSample(tids, tid, time, chain)
        paced == replay /\ lasttime # 0
        panic1 == paced /\ checked /\ time - lasttime < 0
        wait == IF paced /\ UsizeGt(time - lasttime, PACE_MIN) THEN time - lasttime ELSE 0
        rest == FlushRest(time, ins)
        base == [tids |-> ins, lasttime |-> lasttime, lastprint |-> lastprint,
                 screen |-> screen, drew |-> FALSE, delay |-> 0, panicked |-> TRUE,
                 suspended |-> FALSE,
                 sample |-> [tid |-> tid, time |-> time, chain |-> chain]]
    IN  IF panic1 THEN base
        ELSE IF wait # 0
        THEN [base EXCEPT !.delay = wait, !.panicked = FALSE, !.suspended = TRUE]
        ELSE [base EXCEPT !.tids = rest.tids, !.lasttime = rest.lasttime,
                          !.lastprint = rest.lastprint, !.screen = rest.screen,
                          !.drew = rest.drew, !.panicked = rest.panicked]

ApplyFlush(r) ==
    /\ tids' = r.tids
    /\ lasttime' = r.lasttime
    /\ lastprint' = r.lastprint
    /\ screen' = r.screen
    /\ drew' = r.drew
    /\ delay' = r.delay
    /\ nins' = nins + 1
    /\ lastins' = Some(r.sample)

\* the variables after FlushRest has run on its own, after the wait
ApplyRest(r) ==
    /\ tids' = r.tids
    /\ lasttime' = r.lasttime
    /\ lastprint' = r.lastprint
    /\ screen' = r.screen
    /\ drew' = r.drew
    /\ delay' = 0
    /\ UNCHANGED <<nins, lastins>>

NoFlush ==
    /\ drew' = FALSE
    /\ delay' = 0
    /\ UNCHANGED <<tids, lasttime, lastprint, screen, nins, lastins>>

DiagError == <<"E", "r", "r", "o", "r">>
DiagAttaching == <<"A", "t", "t", "a", "c", "h", "i", "n", "g">>

\* mutant: only "Error" lines are skipped
IsDiagnostic_ErrorOnly(line) == StartsWith(line, DiagError)

\* line 90
IsDiagnostic(line) == StartsWith(line, DiagError) \/ StartsWith(line, DiagAttaching)

\* line 91
IsTerminator(line) == ~StartsWith(line, <<" ">>) \/ line = <<>>

\* lines 122-139: the pending record is cleared by a blank line or replaced
\* by the header parsed from the line; a malformed header panics
NextRecord(line) ==
    LET hdr == ParseHeader(line)
    IN  /\ inframe' = IF line = <<>> THEN None ELSE hdr
        /\ pc' = IF line # <<>> /\ hdr = None THEN "panic" ELSE "loop"

\* mutant: the buffer is flushed without the is_empty test
OnTerminator_NoEmptyTest(line) ==
    LET closing == inframe # None
        r == FlushRecord(inframe[1][1], inframe[1][2], stack)
    IN  /\ IF closing THEN ApplyFlush(r) ELSE NoFlush
        /\ stack' = IF closing THEN <<>> ELSE stack
        /\ rec' = IF closing THEN <<>> ELSE rec
        /\ IF closing /\ r.panicked THEN pc' = "panic" /\ inframe' = inframe
           ELSE IF closing /\ r.suspended THEN pc' = "sleep" /\ inframe' = inframe
           ELSE NextRecord(line)

\* mutant: the flushed buffer is cloned, not taken
OnTerminator_KeepBuffer(line) ==
    LET closing == inframe # None /\ stack # <<>>
        r == FlushRecord(inframe[1][1], inframe[1][2], stack)
    IN  /\ IF closing THEN ApplyFlush(r) ELSE NoFlush
        /\ stack' = stack
        /\ rec' = rec
        /\ IF closing /\ r.panicked THEN pc' = "panic" /\ inframe' = inframe
           ELSE IF closing /\ r.suspended THEN pc' = "sleep" /\ inframe' = inframe
           ELSE NextRecord(line)

\* lines 92-139: a blank line or a header
OnTerminator(line) ==
    LET closing == inframe # None /\ stack # <<>>
        r == FlushRecord(inframe[1][1], inframe[1][2], stack)
    IN  /\ IF closing THEN ApplyFlush(r) ELSE NoFlush
        /\ stack' = IF closing THEN <<>> ELSE stack
        /\ rec' = IF closing THEN <<>> ELSE rec
        /\ IF closing /\ r.panicked THEN pc' = "panic" /\ inframe' = inframe
           ELSE IF closing /\ r.suspended THEN pc' = "sleep" /\ inframe' = inframe
           ELSE NextRecord(line)

\* lines 112-139: delay_for has completed; the step of the line goes on
\* from the await with the line it was dispatched for
OnWake(line) ==
    LET r == FlushRest(inframe[1][1], tids)
    IN  /\ ApplyRest(r)
        /\ UNCHANGED <<stack, rec>>
        /\ IF r.panicked THEN pc' = "panic" /\ inframe' = inframe
           ELSE NextRecord(line)

\* mutant: the assert is missing
OnBody_NoAssert(line) ==
    /\ NoFlush
    /\ stack' = PushFrame(stack, line)
    /\ rec' = Append(rec, line)
    /\ UNCHANGED <<pc, inframe>>

\* lines 141-143: a body line
OnBody(line) ==
    /\ NoFlush
    /\ IF inframe = None
       THEN pc' = "panic" /\ UNCHANGED <<inframe, stack, rec>>
       ELSE /\ stack' = PushFrame(stack, line)
            /\ rec' = Append(rec, line)
            /\ UNCHANGED <<pc, inframe>>

\* lines 90-144: Either::Left(Ok(line))
OnLine(line) ==
    IF IsDiagnostic(line)
    THEN NoFlush /\ UNCHANGED <<pc, inframe, stack, rec>>
    ELSE IF IsTerminator(line) THEN OnTerminator(line)
    ELSE OnBody(line)

\* mutant: a read error ends the lines stream like end-of-stream
OnLineErr_AsEof ==
    /\ lines_done' = TRUE
    /\ pc' = IF rx_closed THEN "done" ELSE "loop"
    /\ cleared' = rx_closed
    /\ NoFlush
    /\ UNCHANGED <<rx_closed, inframe, stack, rec>>

\* line 89: Either::Left(Err(_)), line.unwrap() panics
OnLineErr ==
    /\ pc' = "panic"
    /\ NoFlush
    /\ UNCHANGED <<cleared, lines_done, rx_closed, inframe, stack, rec>>

\* lines 86, 153-156: the lines stream ends.  Nothing is flushed; the loop
\* ends when the merged stream does, that is when the key channel has
\* ended too, and terminal.clear() follows it.
OnLinesEof ==
    /\ lines_done' = TRUE
    /\ pc' = IF rx_closed THEN "done" ELSE "loop"
    /\ cleared' = rx_closed
    /\ NoFlush
    /\ UNCHANGED <<rx_closed, inframe, stack, rec>>

\* mutant: 'q' is ignored like any other key
OnKey_NoBreak(key) ==
    /\ UNCHANGED <<pc, cleared>>
    /\ NoFlush
    /\ UNCHANGED <<lines_done, rx_closed, inframe, stack, rec>>

\* lines 146-151 and 155: Either::Right(Ok(key)); 'q' breaks out of the
\* loop to terminal.clear()
OnKey(key) ==
    /\ IF key = "q"
       THEN pc' = "done" /\ cleared' = TRUE
       ELSE UNCHANGED <<pc, cleared>>
    /\ NoFlush
    /\ UNCHANGED <<lines_done, rx_closed, inframe, stack, rec>>

\* line 147: Either::Right(Err(_)), key? returns the error
OnKeyErr ==
    /\ pc' = "err"
    /\ NoFlush
    /\ UNCHANGED <<cleared, lines_done, rx_closed, inframe, stack, rec>>

\* lines 68-75, 86, 153-156: the key thread ends and drops tx
OnRxClosed ==
    /\ rx_closed' = TRUE
    /\ pc' = IF lines_done THEN "done" ELSE "loop"
    /\ cleared' = lines_done
    /\ NoFlush
    /\ UNCHANGED <<lines_done, inframe, stack, rec>>

\* ------------------------------------------------------------ inputs
Lines ==
    { <<>>,
      <<" ", "a">>, <<" ", "b", " ">>,
      <<"1", " ", "1">>, <<"3", "0", "0", " ", "2">>,
      <<"a", "b", "c", " ", "1">>, <<"7">>,
      DiagError, DiagAttaching }

Keys == {"q", "x"}

\* the frames of a chain or of the chain buffer
FrameCount(chain) ==
    IF chain = <<>> THEN 0
    ELSE Cardinality({i \in 1..(Len(chain) - 1) : chain[i] = ";"}) + 1

RECURSIVE FramesIn(_, _)
FramesIn(threads, slots) ==
    IF slots = {} THEN 0
    ELSE LET x == CHOOSE y \in slots : TRUE
         IN  FrameCount(threads[x[1]][x[2]]) + FramesIn(threads, slots \ {x})

FramesHeld ==
    FrameCount(stack)
    + FramesIn(tids, UNION {{<<i, t>> : t \in DOMAIN tids[i]} : i \in DOMAIN tids})

\* ------------------------------------------------------------ actions
Line ==
    \E line \in Lines :
        /\ pc = "loop" /\ ~lines_done
        /\ nins < MaxInserts
        /\ (~IsDiagnostic(line) /\ ~IsTerminator(line)) => FramesHeld < MaxFrames
        /\ ev' = Event("line", line)
        /\ OnLine(line)
        /\ UNCHANGED <<replay, checked, cleared, lines_done, rx_closed>>

\* the timer of delay_for fires and the suspended step resumes; nothing
\* else is dispatched while the loop is suspended
Wake ==
    /\ pc = "sleep"
    /\ ev' = Event("wake", ev.arg)
    /\ OnWake(ev.arg)
    /\ UNCHANGED <<replay, checked, cleared, lines_done, rx_closed>>

LineErr ==
    /\ pc = "loop" /\ ~lines_done
    /\ ev' = Event("lineerr", <<>>)
    /\ OnLineErr
    /\ UNCHANGED <<replay, checked>>

LinesEof ==
    /\ pc = "loop" /\ ~lines_done
    /\ ev' = Event("eof", <<>>)
    /\ OnLinesEof
    /\ UNCHANGED <<replay, checked>>

Key ==
    \E key \in Keys :
        /\ pc = "loop" /\ ~rx_closed
        /\ ev' = Event("key", <<key>>)
        /\ OnKey(key)
        /\ UNCHANGED <<replay, checked>>

KeyErr ==
    /\ pc = "loop" /\ ~rx_closed
    /\ ev' = Event("keyerr", <<>>)
    /\ OnKeyErr
    /\ UNCHANGED <<replay, checked>>

RxClosed ==
    /\ pc = "loop" /\ ~rx_closed
    /\ ev' = Event("rxclosed", <<>>)
    /\ OnRxClosed
    /\ UNCHANGED <<replay, checked>>

Next == Line \/ Wake \/ LineErr \/ LinesEof \/ Key \/ KeyErr \/ RxClosed

Spec == Init /\ [][Next]_vars

\* ------------------------------------------------------------ the store's view
\* The consumer loop fed with well-formed records of three threads: a
\* header, the three body lines of the chain a;b;c or x;y;c, a blank line.
\* The loop takes them line by line, and keys, errors and the end of either
\* stream arrive between any two lines as in Spec.  The program runs
\* without --replay, so no step is suspended at delay_for.
StoreHeaders ==
    { <<"1", " ", "1">>, <<"1", " ", "2">>, <<"1", " ", "3">>,
      <<"3", "0", "0", " ", "3">>,
      <<"1", "0", "2", "0", "0", " ", "2">> }

\* the body lines that continue the chain in the buffer; none when it is
\* complete
ChainBody(buf) ==
    IF buf = <<>> THEN {<<" ", "a">>, <<" ", "x">>}
    ELSE IF buf = <<"a", ";">> THEN {<<" ", "b">>}
    ELSE IF buf = <<"x", ";">> THEN {<<" ", "y">>}
    ELSE IF buf \in {<<"a", ";", "b", ";">>, <<"x", ";", "y", ";">>} THEN {<<" ", "c">>}
    ELSE {}

\* the lines the trace source can deliver next
StoreFeed ==
    IF inframe = None THEN StoreHeaders
    ELSE IF ChainBody(stack) # {} THEN ChainBody(stack)
    ELSE {<<>>}

\* the lines of such records read so far: five for each record closed, and
\* the header and body lines of the record in progress
LinesRead ==
    5 * nins + (IF inframe = None THEN 0 ELSE 1 + FrameCount(stack))

StoreLine ==
    \E line \in StoreFeed :
        /\ pc = "loop" /\ ~lines_done
        /\ LinesRead < MaxLines
        /\ ev' = Event("line", line)
        /\ OnLine(line)
        /\ UNCHANGED <<replay, checked, cleared, lines_done, rx_closed>>

StoreNext == StoreLine \/ LineErr \/ LinesEof \/ Key \/ KeyErr \/ RxClosed

\* the program started without --replay
StoreInit == Init /\ ~replay

StoreSpec == StoreInit /\ [][StoreNext]_vars

\* ------------------------------------------------------------ the aggregator's view
\* The consumer loop fed with one recorded trace of two threads, all of it
\* within one WINDOW, so that no sample is evicted: five records with these
\* headers in this order, each with the body lines of a;b;c or x;y;c and a
\* blank line.  Keys, errors and stream ends arrive as in Spec.
BurstHeaders ==
    << <<"1", " ", "1">>, <<"1", " ", "2">>,
       <<"3", "0", "0", " ", "1">>, <<"3", "0", "0", " ", "2">>,
       <<"6", "0", "0", " ", "1">> >>

\* the lines the recorded trace can deliver next; none after its last record
BurstFeed ==
    IF inframe = None
    THEN IF nins < Len(BurstHeaders) THEN {BurstHeaders[nins + 1]} ELSE {}
    ELSE IF ChainBody(stack) # {} THEN ChainBody(stack)
    ELSE {<<>>}

BurstLine ==
    \E line \in BurstFeed :
        /\ pc = "loop" /\ ~lines_done
        /\ ev' = Event("line", line)
        /\ OnLine(line)
        /\ UNCHANGED <<replay, checked, cleared, lines_done, rx_closed>>

AggNext == BurstLine \/ LineErr \/ LinesEof \/ Key \/ KeyErr \/ RxClosed

AggSpec == StoreInit /\ [][AggNext]_vars

\* ------------------------------------------------------------ claims
LineA == <<" ", "a">>
LineB == <<" ", "b", " ">>
Header1 == <<"1", " ", "1">>
Header300 == <<"3", "0", "0", " ", "2">>
HeaderAbc == <<"a", "b", "c", " ", "1">>
HeaderNoTid == <<"7">>
KeyQ == Event("key", <<"q">>)

\* a line that ends a record: blank, or a header (not indented, no diagnostic)
EndsRecord(line) ==
    \/ line = <<>>
    \/ /\ line[1] # " "
       /\ ~(Len(line) >= 5 /\ SubSeq(line, 1, 5) = DiagError)
       /\ ~(Len(line) >= 9 /\ SubSeq(line, 1, 9) = DiagAttaching)

\* a body line without the whitespace around it
RECURSIVE StripLeft(_)
StripLeft(s) == IF s # <<>> /\ Head(s) = " " THEN StripLeft(Tail(s)) ELSE s

RECURSIVE StripRight(_)
StripRight(s) ==
    IF s # <<>> /\ s[Len(s)] = " " THEN StripRight(SubSeq(s, 1, Len(s) - 1)) ELSE s

Stripped(line) == StripRight(StripLeft(line))

\* the frames of the body lines, joined by ";" with none at the end
RECURSIVE Joined(_)
Joined(lines) ==
    IF lines = <<>> THEN <<>>
    ELSE IF Len(lines) = 1 THEN Stripped(lines[1])
    ELSE Stripped(lines[1]) \o <<";">> \o Joined(Tail(lines))

\* the samples in the windows, as <<tid, time>> slots
Slots(threads) == UNION {{<<i, t>> : t \in DOMAIN threads[i]} : i \in DOMAIN threads}

\* C1: when a line ends a pending record with k >= 1 body lines, exactly one
\* sample is inserted, under the header's thread id and timestamp, and its
\* chain is the body lines in arrival order, each trimmed, joined by ";"
\* with no trailing separator.
C1_RecordRoundTrip ==
    [][(ev'.kind = "line" /\ EndsRecord(ev'.arg) /\ inframe # None /\ rec # <<>>)
       => LET time == inframe[1][1]
              tid == inframe[1][2]
          IN  /\ nins' = nins + 1
              /\ lastins' = Some([tid |-> tid, time |-> time, chain |-> Joined(rec)])
              /\ tid \in DOMAIN tids'
              /\ time \in DOMAIN tids'[tid] => tids'[tid][time] = Joined(rec)
              /\ ~drew' => /\ time \in DOMAIN tids'[tid]
                           /\ Slots(tids') = Slots(tids) \cup {<<tid, time>>}
              /\ stack' = <<>>]_vars

\* a record "300 2 / a / b" closed by the header "1 1", with no blank line
C1_Witness ==
    /\ ev = Event("line", Header1)
    /\ drew
    /\ lastins = Some([tid |-> 2, time |-> 300, chain |-> <<"a", ";", "b">>])
    /\ tids[2][300] = <<"a", ";", "b">>
    /\ inframe = Some(<<1, 1>>)

\* C2: after the eviction pass of a draw, every remaining sample has a
\* timestamp >= (the maximum timestamp across the windows - WINDOW), and no
\* sample at or above that bound was removed (none at all when the maximum
\* does not exceed WINDOW).
C2_WindowInvariant ==
    [][drew'
       => LET s == lastins'[1]
              before == Slots(tids) \cup {<<s.tid, s.time>>}
              maxts == SetMax({x[2] : x \in before})
              bound == maxts - WINDOW
              chainOf(x) == IF x = <<s.tid, s.time>> THEN s.chain ELSE tids[x[1]][x[2]]
          IN  /\ \A x \in Slots(tids') : x[2] >= bound
              /\ \A x \in before :
                    x[2] >= bound => x \in Slots(tids') /\ tids'[x[1]][x[2]] = chainOf(x)
              /\ maxts <= WINDOW => Slots(tids') = before
              /\ DOMAIN tids' = DOMAIN tids \cup {s.tid}]_vars

\* a draw at 10200 that dropped thread 1's sample at 1 and kept thread 3's at 300
C2_Witness ==
    /\ drew
    /\ lastins # None /\ lastins[1].time = 10200
    /\ 1 \in DOMAIN tids /\ DOMAIN tids[1] = {}
    /\ 3 \in DOMAIN tids /\ 300 \in DOMAIN tids[3]

\* C3: once the trace source has ended, a pending record with a non-empty
\* chain has been flushed, that is its sample is in the store.  OnLinesEof
\* flushes nothing, so the state after "1 1", " a", end-of-stream violates
\* this: the record stays pending and the store stays empty.
C3_Original ==
    (lines_done /\ inframe # None /\ rec # <<>>)
    => /\ inframe[1][2] \in DOMAIN tids
       /\ inframe[1][1] \in DOMAIN tids[inframe[1][2]]
       /\ tids[inframe[1][2]][inframe[1][1]] = Joined(rec)

\* C4: the step that dispatches 'q' ends the loop and runs the teardown,
\* with lines unread or a record in progress; it inserts, evicts and draws
\* nothing, and no step follows it.
C4_QuitEndsLoop ==
    [][/\ ev # KeyQ
       /\ ev' = KeyQ => /\ pc' = "done"
                        /\ cleared'
                        /\ ~drew'
                        /\ UNCHANGED <<tids, nins, lastins, inframe, stack, screen,
                                       lastprint, lasttime, lines_done>>]_vars

\* quit while a record is in progress and the trace source is still open
C4_Witness ==
    /\ ev = KeyQ
    /\ pc = "done" /\ cleared
    /\ ~lines_done
    /\ inframe # None /\ stack # <<>>

TraceStep == Line \/ LineErr \/ LinesEof

\* C5: once the trace source is exhausted the loop has ended, or can go on
\* to its end with no event from the control source.  OnLinesEof leaves
\* pc = "loop" while the key channel is open, so the state after
\* end-of-stream with no key pressed violates this.
C5_Original == lines_done => (pc # "loop" \/ ENABLED TraceStep)

\* C6: a line that is not blank, not indented and no diagnostic is parsed as
\* a header ("300 2" becomes the pending record (300, 2)); one whose
\* timestamp or thread id is missing or no number ("abc 1", "7") is fatal:
\* the step panics (after the replay wait of the record the line closes,
\* if there is one), no pending record comes from the line, and no step
\* follows a panic.
C6_MalformedHeaderFatal ==
    [][/\ pc \in {"loop", "sleep"}
       /\ (ev'.kind \in {"line", "wake"} /\ ev'.arg \in {HeaderAbc, HeaderNoTid})
          => /\ pc' = "panic" \/ (ev'.kind = "line" /\ pc' = "sleep")
             /\ inframe' = None \/ inframe' = inframe
       /\ (ev'.kind \in {"line", "wake"} /\ ev'.arg = Header300 /\ pc' = "loop")
          => inframe' = Some(<<300, 2>>)
       /\ pc = "sleep" => ev'.kind = "wake"]_vars

\* "abc 1" after a record: the record is closed, then the parse panics
C6_Witness ==
    /\ ev = Event("line", HeaderAbc)
    /\ pc = "panic"
    /\ inframe = None
    /\ nins = 1

\* C7: a body line that arrives with no pending record is fatal: the step
\* panics and the line is appended to no chain.
C7_BodyWithoutRecordFatal ==
    [][(ev'.kind = "line" /\ ev'.arg # <<>> /\ ev'.arg[1] = " " /\ inframe = None)
       => /\ pc' = "panic"
          /\ UNCHANGED <<stack, tids, nins, inframe>>]_vars

\* a body line after the blank line that closed a record
C7_Witness ==
    /\ ev = Event("line", LineA)
    /\ pc = "panic"
    /\ inframe = None
    /\ nins = 1

\* C8 as stated: a read error on the trace source is not fatal.
C8_Original == ev.kind = "lineerr" => pc # "panic"

\* C8 amended: a read error on the trace source is fatal: the step panics,
\* the trace source is not marked ended, the teardown after the loop does
\* not run, and no step follows.
C8_ReadErrorFatal ==
    /\ [](ev.kind = "lineerr" => pc = "panic" /\ ~cleared /\ ~lines_done)
    /\ [][ev.kind # "lineerr"]_vars

\* a read error while a record is in progress
C8_Witness ==
    /\ ev.kind = "lineerr"
    /\ pc = "panic"
    /\ stack # <<>>

\* C9: no painted fan-out point has a total count of 1, and none has a
\* suffix of a single frame (no ";" in it).
C9_NoiseFilters ==
    \A i \in 1..Len(screen) :
        /\ screen[i].count # 1
        /\ \E j \in 1..Len(screen[i].stack) : screen[i].stack[j] = ";"

\* a draw that painted a point and held back one of count 1
C9_Witness ==
    /\ drew
    /\ Len(screen) >= 1
    /\ \E k \in DOMAIN Maxes(tids) : Maxes(tids)[k][2] = 1

\* C10: the painted fan-out points are in descending order of their thread
\* count.
C10_RankedByThreads ==
    \A i \in 1..Len(screen) : \A j \in 1..Len(screen) :
        i < j => screen[i].nthreads >= screen[j].nthreads

\* two points with different thread counts, the first the smaller key
C10_Witness ==
    /\ Len(screen) >= 2
    /\ screen[1].nthreads > screen[2].nthreads
    /\ StrLess(screen[1].stack, screen[2].stack)

\* the step closes a pending record: a blank line or a header arrives
Closing == ev'.kind = "line" /\ EndsRecord(ev'.arg) /\ inframe # None

\* C11: a line that ends a pending record with no body line yields no
\* sample: nothing is inserted, no pacing delay and no draw happen, and the
\* pacing and draw bookkeeping is left as it was.
C11_EmptyRecordDropped ==
    [][(Closing /\ rec = <<>>)
       => /\ UNCHANGED <<tids, nins, lastins, lasttime, lastprint, screen>>
          /\ ~drew'
          /\ delay' = 0
          /\ stack' = <<>>]_vars

\* after one record, a header with no body line is pending and a blank line
\* can end it without an insert
C11_Witness ==
    /\ pc = "loop"
    /\ nins = 1
    /\ inframe = Some(<<300, 2>>)
    /\ rec = <<>>
    /\ ENABLED (Line /\ ev' = Event("line", <<>>) /\ nins' = nins /\ inframe' = None)

\* C12: a line starting with "Error" or "Attaching" changes nothing: the
\* pending record, the chain buffer, the store, the screen and the pacing
\* and draw bookkeeping stay as they were, so the record it interrupts goes
\* on as if the line were absent.
C12_DiagnosticIgnored ==
    [][(ev'.kind = "line" /\ ev'.arg \in {DiagError, DiagAttaching})
       => /\ UNCHANGED <<pc, inframe, stack, rec, tids, nins, lastins, screen,
                         lasttime, lastprint, lines_done, rx_closed, cleared>>
          /\ ~drew'
          /\ delay' = 0]_vars

\* "Attaching" in the middle of the record "1 1 / a"
C12_Witness ==
    /\ ev = Event("line", DiagAttaching)
    /\ pc = "loop"
    /\ inframe = Some(<<1, 1>>)
    /\ stack = <<"a", ";">>
    /\ rec = <<LineA>>

\* C13 as stated: when a record with a non-empty chain is closed after an
\* earlier one, the loop is suspended for the gap between their timestamps
\* if replay is on and the gap exceeds PACE_MIN, and not at all if replay is
\* off or the gap is at most PACE_MIN.
C13_Original ==
    [][(Closing /\ rec # <<>> /\ lastins # None)
       => LET gap == inframe[1][1] - lastins[1].time
          IN  /\ (replay /\ gap > PACE_MIN) => delay' = gap /\ pc' = "sleep"
              /\ (~replay \/ gap <= PACE_MIN) => delay' = 0]_vars

\* C19 as stated: on the streams of the data model (timestamps
\* non-decreasing within a thread, any order across threads; here thread 1
\* reports at 1 and thread 2 at 300) the subtractions time - lasttime and
\* time - lastprint of a closing step never underflow.
C19_Original ==
    [][(Closing /\ rec # <<>>)
       => LET time == inframe[1][1]
          IN  /\ (replay /\ lasttime # 0) => time >= lasttime
              /\ time >= lastprint]_vars

\* the leaf-anchored tails of a chain that are shorter than the chain
Tails(chain) ==
    {SubSeq(chain, i + 1, Len(chain)) : i \in {j \in 1..Len(chain) : chain[j] = ";"}}

WindowTails(window) == UNION {Tails(window[t]) : t \in DOMAIN window}

\* the samples of the window the suffix is a tail of
Occurrences(window, suffix) ==
    Cardinality({t \in DOMAIN window : suffix \in Tails(window[t])})

TopCount(window) == SetMax({Occurrences(window, s) : s \in WindowTails(window)})

\* s is counted for the last time after u is: in a later sample, or in the
\* same sample further from the leaf
ProcessedAfter(window, s, u) ==
    LET last(x) == SetMax({t \in DOMAIN window : x \in Tails(window[t])})
    IN  \/ last(s) > last(u)
        \/ last(s) = last(u) /\ Len(s) > Len(u)

\* the suffix with the greatest count, the last processed of those tied
Dominant(window) ==
    CHOOSE s \in WindowTails(window) :
        /\ Occurrences(window, s) = TopCount(window)
        /\ \A u \in WindowTails(window) \ {s} :
              Occurrences(window, u) = TopCount(window) => ProcessedAfter(window, s, u)

\* C14: in a draw, a thread whose window yields a suffix is attributed a
\* suffix whose count over its own window is the greatest of all its
\* suffixes, with that count; among the suffixes tied at it, the one
\* processed last (ascending time, then leaf to root).  A thread whose
\* window yields none is attributed nothing.
C14_DominantAttribution ==
    drew
    => \A tid \in DOMAIN tids :
          LET w == tids[tid]
              m == ThreadMax(w)
          IN  IF WindowTails(w) = {} THEN m = None
              ELSE /\ m # None
                   /\ m[1][1] \in WindowTails(w)
                   /\ m[1][2] = TopCount(w)
                   /\ Occurrences(w, m[1][1]) = TopCount(w)
                   /\ \A u \in WindowTails(w) \ {m[1][1]} :
                         Occurrences(w, u) = TopCount(w) => ProcessedAfter(w, m[1][1], u)

\* a draw over a thread with "c" ahead at 2 and a thread with "c" and "b;c"
\* tied at 1
C14_Witness ==
    /\ drew
    /\ \E tid \in DOMAIN tids :
          /\ Cardinality(DOMAIN tids[tid]) = 2
          /\ ThreadMax(tids[tid]) = Some(<<<<"c">>, 2>>)
    /\ \E tid \in DOMAIN tids :
          /\ Cardinality(DOMAIN tids[tid]) = 1
          /\ ThreadMax(tids[tid]) = Some(<<<<"b", ";", "c">>, 1>>)

\* the last k frames of a chain
LastFrames(chain, k) ==
    LET seps == {i \in 1..Len(chain) : chain[i] = ";"}
        from == CHOOSE i \in seps : Cardinality({j \in seps : j >= i}) = k
    IN  SubSeq(chain, from + 1, Len(chain))

\* C15: for a stored chain of n frames the aggregator visits the n - 1
\* tails of 1, 2, ..., n - 1 frames, in that order, each once: never the
\* whole chain, and nothing for a chain of one frame, so a thread whose
\* window holds only such chains is attributed nothing.
C15_ProperSuffixes ==
    /\ \A x \in Slots(tids) :
          LET chain == tids[x[1]][x[2]]
              n == FrameCount(chain)
              sufs == Suffixes(chain)
          IN  /\ Len(sufs) = n - 1
              /\ \A k \in 1..(n - 1) : sufs[k] = LastFrames(chain, k)
              /\ \A k \in 1..Len(sufs) : sufs[k] # chain
    /\ \A tid \in DOMAIN tids :
          (\A t \in DOMAIN tids[tid] : FrameCount(tids[tid][t]) = 1)
          => ThreadMax(tids[tid]) = None

\* a stored chain of three frames and a stored chain of one
C15_Witness ==
    /\ \E x \in Slots(tids) : FrameCount(tids[x[1]][x[2]]) = 3
    /\ \E x \in Slots(tids) : FrameCount(tids[x[1]][x[2]]) = 1

RECURSIVE SumTopCounts(_, _)
SumTopCounts(threads, ids) ==
    IF ids = {} THEN 0
    ELSE LET i == CHOOSE j \in ids : TRUE
         IN  TopCount(threads[i]) + SumTopCounts(threads, ids \ {i})

RECURSIVE SumThreads(_, _)
SumThreads(maxes, keys) ==
    IF keys = {} THEN 0
    ELSE LET k == CHOOSE j \in keys : TRUE
         IN  maxes[k][1] + SumThreads(maxes, keys \ {k})

\* C16: in a draw, every fan-out point carries the number of threads whose
\* dominant suffix is its suffix and the sum of those threads' greatest
\* counts; the points are the dominant suffixes, threads with no suffix are
\* in none, and the thread counts of all points sum to the number of
\* threads that have a dominant suffix.  The painted points carry the same
\* numbers.
C16_CrossThread ==
    drew
    => LET having == {tid \in DOMAIN tids : WindowTails(tids[tid]) # {}}
           group(s) == {tid \in having : Dominant(tids[tid]) = s}
           maxes == Maxes(tids)
       IN  /\ DOMAIN maxes = {Dominant(tids[tid]) : tid \in having}
           /\ \A s \in DOMAIN maxes :
                 maxes[s] = <<Cardinality(group(s)), SumTopCounts(tids, group(s))>>
           /\ SumThreads(maxes, DOMAIN maxes) = Cardinality(having)
           /\ having # {}
              => \A i \in 1..Len(screen) :
                    /\ screen[i].nthreads = Cardinality(group(screen[i].stack))
                    /\ screen[i].count = SumTopCounts(tids, group(screen[i].stack))

\* a draw with two threads behind one painted point and a thread whose
\* window is empty
C16_Witness ==
    /\ drew
    /\ \E i \in 1..Len(screen) : screen[i].nthreads = 2 /\ screen[i].count = 2
    /\ \E tid \in DOMAIN tids : DOMAIN tids[tid] = {}

\* C17 as stated: the count the intensities are scaled by is the greatest
\* count of the painted points, so the painted point with the greatest
\* count has full intensity.
C17_Original ==
    Len(screen) > 0
    => LET top == SetMax({screen[i].count : i \in 1..Len(screen)})
       IN  \A i \in 1..Len(screen) : screen[i].red = Red(screen[i].count, top)

\* C18: when the record closed has a timestamp not below the last closed
\* record's, draw runs exactly if that timestamp exceeds lastprint (the
\* timestamp of the record behind the last draw, 0 at first) by more than
\* DRAW_EVERY.  It runs with the record's sample in the store and moves
\* lastprint to the record's timestamp, so two draws in a row are more than
\* DRAW_EVERY apart; without a draw lastprint stays.  No other step draws.
C18_DrawCadence ==
    [][/\ drew' => nins' = nins + 1
       /\ (nins' = nins + 1 /\ lastins'[1].time >= lasttime)
          => LET s == lastins'[1]
             IN  /\ pc' = "loop"
                 /\ drew' <=> s.time - lastprint > DRAW_EVERY
                 /\ drew' => /\ lastprint' = s.time
                             /\ lastprint' - lastprint > DRAW_EVERY
                             /\ <<s.tid, s.time>> \in Slots(tids')
                             /\ tids'[s.tid][s.time] = s.chain
                 /\ ~drew' => lastprint' = lastprint
                 /\ lasttime' = s.time]_vars

\* the draw at 10200 after the draw at 300, and no draw for a second record
\* at 10200
C18_Witness ==
    /\ ~drew
    /\ lastins # None /\ lastins[1].time = 10200
    /\ lastprint = 10200
    /\ lasttime = 10200
    /\ nins = 3
    /\ \E x \in Slots(tids) : x[2] = 300

\* C20: a non-empty chain buffer belongs to a pending record, that is with
\* no pending record the buffer is empty, and the buffer is empty whenever
\* the pending record changes: no frame is carried into another record.
C20_BufferNeedsRecord ==
    /\ [](stack # <<>> => inframe # None)
    /\ [](stack = <<>> <=> rec = <<>>)
    /\ [][inframe' # inframe => stack' = <<>>]_vars

\* a blank line has closed a record and cleared both
C20_Witness ==
    /\ ev = Event("line", <<>>)
    /\ nins = 1
    /\ lastins[1].chain = <<"a", ";", "b">>
    /\ inframe = None
    /\ stack = <<>>
====
